---- MODULE Spec2Model ----
(***************************************************************************)
(* Workflow (saga) orchestration engine: WorkflowJob of                    *)
(* src/src/core/workflow/types.ts.  One workflow job (a step list, its     *)
(* observers, its metrics sink) and the execute() invocations made on it.  *)
(* An action is the code that runs between two awaits of execute().        *)
(***************************************************************************)
EXTENDS Integers, Sequences, FiniteSets, TLC

\* ------------------------------------------------------------------ bounds
MaxSteps == 3

MaxObservers == 2

\* The execute() invocations of one job; Spec runs the first one only.
Invocations == {1, 2}

VARIABLES
  steps,            \* this.steps: the declared step list
  numObservers,     \* this.workflowObservers.length
  hasMetrics,       \* this.metrics is defined
  stepsValidated,   \* this.stepsValidated
  nextWorkflowId,   \* source of randomUUID(): ids handed out so far
  observed,         \* per observer, the events its onEvent was invoked with
  metricsLog,       \* the calls made on the metrics sink, in order
  pc,               \* per invocation: where execute() stands
  workflowId,       \* runtime.workflowId
  stepSnapshots,    \* runtime.stepSnapshots
  stepResults,      \* runtime.stepResults
  idx,              \* position of the for-loop of execute() in this.steps
  stepError,        \* the error caught by executeStep's catch block
  compQueue,        \* executeCompensation: compensatableSteps still to process
  caught,           \* the error caught by execute()'s catch block
  thrown,           \* the error execute() raised to its caller
  returned,         \* the result execute() returned to its caller
  built,            \* the workflow results execute() has built, in order
  calls,            \* step.execute / step.compensate invocations, in order
  inflight,         \* step functions called and not yet settled
  settled,          \* step.execute / step.compensate / hook calls that settled, in order
  sinkRaised,       \* the sinks ("observer", "metrics") that raised in this invocation
  unsettled,        \* execute() went on past an emit while an observer's promise was pending
  validations,      \* the number of walks validateSteps has made
  sharedState,      \* runtime.sharedState: the object of the factory and its content
  argRefs,          \* the sharedState references passed to the step functions, in call order
  hookOverridden,   \* the job's class overrides onWorkflowCompleted
  stepOutput        \* per declared step, the value its execute returns

vars == <<steps, numObservers, hasMetrics, stepsValidated, nextWorkflowId,
          observed, metricsLog, pc, workflowId, stepSnapshots, stepResults,
          idx, stepError, compQueue, caught, thrown, returned, built,
          calls, inflight, settled, sinkRaised, unsettled, validations,
          sharedState, argRefs, hookOverridden, stepOutput>>

jobVars == <<steps, numObservers, hasMetrics, hookOverridden, stepOutput>>

\* ------------------------------------------------------------------ values
Err(kind, id, dep) == [kind |-> kind, id |-> id, dep |-> dep]

NoError == Err("none", 0, 0)

ObserverError == Err("observer", 0, 0)

MetricsError == Err("metrics", 0, 0)

HookError == Err("hook", 0, 0)

StepError(id) == Err("step", id, 0)

CompensationError(id) == Err("compensation", id, 0)

NoResult == [status |-> "none", workflowId |-> 0, steps |-> <<>>, result |-> 0, error |-> NoError,
             sharedState |-> 0]

\* A shared-state object: its reference and what the step functions wrote to it.
NoSharedState == [ref |-> 0, fields |-> <<>>]

\* this.sharedStateFactory(): a new, empty record.
sharedStateFactory(ref) == [ref |-> ref, fields |-> <<>>]

\* The output of step.execute, a value that names the step that made it.
Output(id) == 100 + id

\* The JavaScript values undefined and null, as outputs and results.
Undefined == 0

Null == 1

\* The outputs the execute function of a step may return.
Outputs(id) == {Output(id), Null, Undefined}

\* The value returned by an overriding onWorkflowCompleted.
OverrideResult == 200

Settled(fn, id, ok) == [fn |-> fn, id |-> id, ok |-> ok]

Step(id, dependsOn, compensate) ==
  [id |-> id, dependsOn |-> dependsOn, compensate |-> compensate]

\* The step lists a job is declared with: at position i a fresh id or the id
\* of the step before it, no dependency or one on the id before it, on its own
\* id or on the id after it.
IdChoices(i) == {i} \cup (IF i > 1 THEN {i - 1} ELSE {})

DepChoices(i) == {<<>>, <<i>>, <<i + 1>>} \cup (IF i > 1 THEN {<<i - 1>>} ELSE {})

\* The id lists and the dependsOn lists of length n.
RECURSIVE IdLists(_)
IdLists(n) ==
  IF n = 0 THEN {<<>>}
  ELSE { Append(l, c) : l \in IdLists(n - 1), c \in IdChoices(n) }

RECURSIVE DepLists(_)
DepLists(n) ==
  IF n = 0 THEN {<<>>}
  ELSE { Append(l, c) : l \in DepLists(n - 1), c \in DepChoices(n) }

StepList(ids, deps, comp) ==
  [i \in 1..Len(ids) |-> Step(ids[i], deps[i], comp[i])]

\* ------------------------------------------------------------------ pure code
Reverse(s) == [k \in 1..Len(s) |-> s[Len(s) + 1 - k]]

\* The first entry of dependsOn, from position k on, that is not in ids.
RECURSIVE FirstMissing(_, _, _)
FirstMissing(dependsOn, k, ids) ==
  IF k > Len(dependsOn) THEN 0
  ELSE IF dependsOn[k] \notin ids THEN dependsOn[k]
  ELSE FirstMissing(dependsOn, k + 1, ids)

\* The walk without the test for an id seen before.
RECURSIVE validateFromNoDuplicateTest(_, _, _)
validateFromNoDuplicateTest(list, k, ids) ==
  IF k > Len(list) THEN NoError
  ELSE LET seen == ids \cup {list[k].id}
           dep == FirstMissing(list[k].dependsOn, 1, seen)
       IN IF dep # 0 THEN Err("config:dependency", list[k].id, dep)
          ELSE validateFromNoDuplicateTest(list, k + 1, seen)

RECURSIVE validateFrom(_, _, _)
validateFrom(list, k, ids) ==
  IF k > Len(list) THEN NoError
  ELSE IF list[k].id \in ids THEN Err("config:duplicate", list[k].id, 0)
  ELSE LET seen == ids \cup {list[k].id}
           dep == FirstMissing(list[k].dependsOn, 1, seen)
       IN IF dep # 0 THEN Err("config:dependency", list[k].id, dep)
          ELSE validateFrom(list, k + 1, seen)

validateSteps(list) == validateFrom(list, 1, {})

ensureDependenciesSatisfied(step, snapshots) ==
  LET completedStepIds == { snapshots[k].id : k \in { j \in 1..Len(snapshots) : snapshots[j].status = "completed" } }
      dep == FirstMissing(step.dependsOn, 1, completedStepIds)
  IN IF Len(step.dependsOn) = 0 THEN NoError
     ELSE IF dep # 0 THEN Err("dependency-violation", step.id, dep)
     ELSE NoError

createSnapshot(stepId, status) == [id |-> stepId, status |-> status]

\* ------------------------------------------------------------------ sinks
workflowObservers == 1..numObservers

Event(type, wid, stepId, error, result) ==
  [type |-> type, workflowId |-> wid, stepId |-> stepId, error |-> error, result |-> result]

\* Only the first registered observer is notified.
emitEventFirstOnly(log, event) ==
  [o \in DOMAIN log |-> IF o = 1 THEN Append(log[o], event) ELSE log[o]]

\* emitEvent: every observer's onEvent is invoked with the event, none when
\* there is no observer.
emitEvent(log, event) == [o \in DOMAIN log |-> Append(log[o], event)]

\* Whether the awaited Promise.all of emitEvent rejects: an observer raised.
EmitOutcomes == IF numObservers = 0 THEN {FALSE} ELSE BOOLEAN

Raised(raise) == IF raise THEN {"observer"} ELSE {}

\* Promise.all rejects with the first rejection: whether the promise of another
\* observer is still pending when the awaiting code goes on.
LateOutcomes(raise) == IF raise /\ numObservers >= 2 THEN BOOLEAN ELSE {FALSE}

\* A call on the metrics sink is made when the job has one.
recordMetric(log, call) == IF hasMetrics THEN Append(log, call) ELSE log

\* Whether a call on the metrics sink raises.
MetricOutcomes == IF hasMetrics THEN BOOLEAN ELSE {FALSE}

\* ------------------------------------------------------------------ initial state
\* The compensate flags of a job's steps: validation does not read them, so
\* the lists it rejects are taken without compensate functions.
CompLists(ids, deps) ==
  LET n == Len(ids)
      none == [i \in 1..n |-> FALSE]
  IN IF validateSteps(StepList(ids, deps, none)) = NoError THEN [1..n -> BOOLEAN]
     ELSE {none}

\* The fields of a constructed job on which execute() was not called yet.
Constructed ==
  /\ stepsValidated = FALSE
  /\ nextWorkflowId = 1
  /\ observed = [o \in 1..numObservers |-> <<>>]
  /\ metricsLog = <<>>
  /\ pc = [i \in Invocations |-> "idle"]
  /\ workflowId = [i \in Invocations |-> 0]
  /\ stepSnapshots = [i \in Invocations |-> <<>>]
  /\ stepResults = [i \in Invocations |-> <<>>]
  /\ idx = [i \in Invocations |-> 0]
  /\ stepError = [i \in Invocations |-> NoError]
  /\ compQueue = [i \in Invocations |-> <<>>]
  /\ caught = [i \in Invocations |-> NoError]
  /\ thrown = [i \in Invocations |-> NoError]
  /\ returned = [i \in Invocations |-> NoResult]
  /\ built = [i \in Invocations |-> <<>>]
  /\ calls = [i \in Invocations |-> <<>>]
  /\ inflight = [i \in Invocations |-> {}]
  /\ settled = [i \in Invocations |-> <<>>]
  /\ sinkRaised = [i \in Invocations |-> {}]
  /\ unsettled = [i \in Invocations |-> FALSE]
  /\ validations = 0
  /\ sharedState = [i \in Invocations |-> NoSharedState]
  /\ argRefs = [i \in Invocations |-> <<>>]

Init ==
  /\ \E n \in 0..MaxSteps : \E ids \in IdLists(n), deps \in DepLists(n) :
       \E comp \in CompLists(ids, deps) : steps = StepList(ids, deps, comp)
  /\ numObservers \in 0..MaxObservers
  /\ hasMetrics \in BOOLEAN
  /\ hookOverridden \in BOOLEAN
  /\ stepOutput = [k \in 1..Len(steps) |-> Output(steps[k].id)]
  /\ Constructed

\* ------------------------------------------------------------------ execute()
\* The runtime state holds the lists of another invocation of the job.
createRuntimeStateShared(i) ==
  LET other == CHOOSE j \in Invocations : j # i
  IN [workflowId |-> nextWorkflowId,
      sharedState |-> sharedStateFactory(nextWorkflowId),
      stepResults |-> stepResults[other],
      stepSnapshots |-> stepSnapshots[other]]

\* createRuntimeState: a new workflowId, an empty stepResults map and an
\* empty stepSnapshots list.
createRuntimeState(i) ==
  [workflowId |-> nextWorkflowId,
   sharedState |-> sharedStateFactory(nextWorkflowId),
   stepResults |-> <<>>,
   stepSnapshots |-> <<>>]

\* The arguments hold a copy of the shared state.
stepArgsCopied(i) == [sharedState |-> 0, stepResults |-> stepResults[i]]

\* The arguments of step.execute and step.compensate: runtime.sharedState and
\* runtime.stepResults are passed by reference.
stepArgs(i) == [sharedState |-> sharedState[i].ref, stepResults |-> stepResults[i]]

\* execute() without the assignment of stepsValidated.
ExecuteRevalidates(i) ==
  /\ pc[i] = "idle"
  /\ LET verdict == IF stepsValidated THEN NoError ELSE validateSteps(steps)
         runtime == createRuntimeState(i)
     IN IF verdict # NoError
        THEN /\ pc' = [pc EXCEPT ![i] = "raised"]
             /\ thrown' = [thrown EXCEPT ![i] = verdict]
             /\ validations' = validations + 1
             /\ UNCHANGED <<stepsValidated, nextWorkflowId, observed, workflowId, sharedState,
                            stepSnapshots, stepResults, idx, sinkRaised, unsettled>>
        ELSE \E raise \in EmitOutcomes :
             /\ stepsValidated' = stepsValidated
             /\ validations' = IF stepsValidated THEN validations ELSE validations + 1
             /\ workflowId' = [workflowId EXCEPT ![i] = runtime.workflowId]
             /\ sharedState' = [sharedState EXCEPT ![i] = runtime.sharedState]
             /\ stepSnapshots' = [stepSnapshots EXCEPT ![i] = runtime.stepSnapshots]
             /\ stepResults' = [stepResults EXCEPT ![i] = runtime.stepResults]
             /\ nextWorkflowId' = nextWorkflowId + 1
             /\ observed' = emitEvent(observed, Event("workflow:start", runtime.workflowId, 0, NoError, "none"))
             /\ idx' = [idx EXCEPT ![i] = 1]
             /\ sinkRaised' = [sinkRaised EXCEPT ![i] = Raised(raise)]
             /\ \E late \in LateOutcomes(raise) : unsettled' = [unsettled EXCEPT ![i] = late]
             /\ pc' = [pc EXCEPT ![i] = IF raise THEN "raised" ELSE "loop"]
             /\ thrown' = [thrown EXCEPT ![i] = IF raise THEN ObserverError ELSE NoError]
  /\ UNCHANGED <<jobVars, settled, metricsLog, stepError, argRefs,
                 compQueue, caught, returned, built, calls, inflight>>

\* execute() up to its first await: validation, createRuntimeState and the
\* emit of workflow:start, which is outside the try block.
Execute(i) ==
  /\ pc[i] = "idle"
  /\ LET verdict == IF stepsValidated THEN NoError ELSE validateSteps(steps)
         runtime == createRuntimeState(i)
     IN IF verdict # NoError
        THEN /\ pc' = [pc EXCEPT ![i] = "raised"]
             /\ thrown' = [thrown EXCEPT ![i] = verdict]
             /\ validations' = validations + 1
             /\ UNCHANGED <<stepsValidated, nextWorkflowId, observed, workflowId, sharedState,
                            stepSnapshots, stepResults, idx, sinkRaised, unsettled>>
        ELSE \E raise \in EmitOutcomes :
             /\ stepsValidated' = TRUE
             /\ validations' = IF stepsValidated THEN validations ELSE validations + 1
             /\ workflowId' = [workflowId EXCEPT ![i] = runtime.workflowId]
             /\ sharedState' = [sharedState EXCEPT ![i] = runtime.sharedState]
             /\ stepSnapshots' = [stepSnapshots EXCEPT ![i] = runtime.stepSnapshots]
             /\ stepResults' = [stepResults EXCEPT ![i] = runtime.stepResults]
             /\ nextWorkflowId' = nextWorkflowId + 1
             /\ observed' = emitEvent(observed, Event("workflow:start", runtime.workflowId, 0, NoError, "none"))
             /\ idx' = [idx EXCEPT ![i] = 1]
             /\ sinkRaised' = [sinkRaised EXCEPT ![i] = Raised(raise)]
             /\ \E late \in LateOutcomes(raise) : unsettled' = [unsettled EXCEPT ![i] = late]
             /\ pc' = [pc EXCEPT ![i] = IF raise THEN "raised" ELSE "loop"]
             /\ thrown' = [thrown EXCEPT ![i] = IF raise THEN ObserverError ELSE NoError]
  /\ UNCHANGED <<jobVars, settled, metricsLog, stepError, argRefs,
                 compQueue, caught, returned, built, calls, inflight>>

\* runtime.stepSnapshots with the snapshot executeStep created (the last one
\* pushed) set to status.
setSnapshot(snapshots, status) ==
  [snapshots EXCEPT ![Len(snapshots)] = [@ EXCEPT !.status = status]]

\* updateSnapshotStatus: the first snapshot with this id, when there is one.
updateSnapshotStatus(snapshots, stepId, status) ==
  LET hits == { k \in 1..Len(snapshots) : snapshots[k].id = stepId }
  IN IF hits = {} THEN snapshots
     ELSE LET first == CHOOSE k \in hits : \A j \in hits : k <= j
          IN [snapshots EXCEPT ![first] = [@ EXCEPT !.status = status]]

\* The selection without its final .reverse(): declaration order.
compensatableStepsForward(list, snapshots) ==
  SelectSeq(list, LAMBDA step :
    /\ step.compensate
    /\ \E k \in 1..Len(snapshots) :
         snapshots[k].id = step.id /\ snapshots[k].status = "completed")

\* The selection with a snapshot of any status taken for a completed step.
compensatableStepsAnyStatus(list, snapshots) ==
  Reverse(SelectSeq(list, LAMBDA step :
    /\ step.compensate
    /\ \E k \in 1..Len(snapshots) : snapshots[k].id = step.id))

\* executeCompensation's selection: the steps that declare compensate and have
\* a completed snapshot, in reverse of declaration order.
compensatableSteps(list, snapshots) ==
  Reverse(SelectSeq(list, LAMBDA step :
    /\ step.compensate
    /\ \E k \in 1..Len(snapshots) :
         snapshots[k].id = step.id /\ snapshots[k].status = "completed"))

\* stepResults replaced by, instead of extended with, the new output.
setResultOnlyLast(results, stepId, output) == [k \in {stepId} |-> output]

setResult(results, stepId, output) ==
  [k \in DOMAIN results \cup {stepId} |-> IF k = stepId THEN output ELSE results[k]]

\* The for-loop without its await: an iteration also starts while the step
\* function called by the one before it is in flight.
executeStepNotAwaited(p) == p \in {"loop", "stepRunning"}

\* The for-loop of execute() awaits executeStep: an iteration starts when the
\* call before it has settled.
executeStepSettled(p) == p = "loop"

\* executeStep up to the call of step.execute: the dependency check, the
\* in_progress snapshot, the emit of step:start.
StepBegin(i) ==
  /\ executeStepSettled(pc[i])
  /\ idx[i] <= Len(steps)
  /\ LET step == steps[idx[i]]
         violation == ensureDependenciesSatisfied(step, stepSnapshots[i])
     IN IF violation # NoError
        THEN /\ pc' = [pc EXCEPT ![i] = "catch"]
             /\ caught' = [caught EXCEPT ![i] = violation]
             /\ UNCHANGED <<stepSnapshots, observed, calls, argRefs, inflight, sinkRaised, unsettled>>
        ELSE \E raise \in EmitOutcomes :
             /\ stepSnapshots' = [stepSnapshots EXCEPT ![i] = Append(@, createSnapshot(step.id, "in_progress"))]
             /\ observed' = emitEvent(observed, Event("step:start", workflowId[i], step.id, NoError, "none"))
             /\ sinkRaised' = [sinkRaised EXCEPT ![i] = @ \cup Raised(raise)]
             /\ \E late \in LateOutcomes(raise) : unsettled' = [unsettled EXCEPT ![i] = @ \/ late]
             /\ IF raise
                THEN /\ pc' = [pc EXCEPT ![i] = "catch"]
                     /\ caught' = [caught EXCEPT ![i] = ObserverError]
                     /\ UNCHANGED <<calls, argRefs, inflight>>
                ELSE /\ pc' = [pc EXCEPT ![i] = "stepRunning"]
                     /\ calls' = [calls EXCEPT ![i] = Append(@, <<"execute", step.id>>)]
                     /\ argRefs' = [argRefs EXCEPT ![i] = Append(@, stepArgs(i).sharedState)]
                     /\ inflight' = [inflight EXCEPT ![i] = @ \cup {<<"execute", step.id>>}]
                     /\ UNCHANGED caught
  /\ UNCHANGED <<jobVars, validations, settled, stepsValidated, nextWorkflowId, metricsLog, workflowId,
                 sharedState, stepResults, idx, stepError, compQueue, thrown, returned, built>>

\* step.execute returned: the try block of executeStep after the await.
StepReturn(i) ==
  /\ pc[i] = "stepRunning"
  /\ settled' = [settled EXCEPT ![i] = Append(@, Settled("execute", steps[idx[i]].id, TRUE))]
  /\ LET step == steps[idx[i]]
     IN \E metricRaise \in MetricOutcomes, raise \in EmitOutcomes :
        /\ inflight' = [inflight EXCEPT ![i] = @ \ {<<"execute", step.id>>}]
        /\ sharedState' = [sharedState EXCEPT ![i].fields = Append(@, <<"execute", step.id>>)]
        /\ stepSnapshots' = [stepSnapshots EXCEPT ![i] = setSnapshot(@, "completed")]
        /\ stepResults' = [stepResults EXCEPT ![i] = setResult(@, step.id, stepOutput[idx[i]])]
        /\ metricsLog' = recordMetric(metricsLog, <<"recordStep", step.id, "success">>)
        /\ IF metricRaise
           THEN /\ pc' = [pc EXCEPT ![i] = "stepCatch"]
                /\ stepError' = [stepError EXCEPT ![i] = MetricsError]
                /\ sinkRaised' = [sinkRaised EXCEPT ![i] = @ \cup {"metrics"}]
                /\ UNCHANGED unsettled
                /\ UNCHANGED <<observed, idx>>
           ELSE /\ observed' = emitEvent(observed, Event("step:completed", workflowId[i], step.id, NoError, "none"))
                /\ sinkRaised' = [sinkRaised EXCEPT ![i] = @ \cup Raised(raise)]
                /\ \E late \in LateOutcomes(raise) : unsettled' = [unsettled EXCEPT ![i] = @ \/ late]
                /\ IF raise
                   THEN /\ pc' = [pc EXCEPT ![i] = "stepCatch"]
                        /\ stepError' = [stepError EXCEPT ![i] = ObserverError]
                        /\ UNCHANGED idx
                   ELSE /\ pc' = [pc EXCEPT ![i] = "loop"]
                        /\ idx' = [idx EXCEPT ![i] = @ + 1]
                        /\ UNCHANGED stepError
  /\ UNCHANGED <<jobVars, validations, stepsValidated, nextWorkflowId, workflowId, compQueue,
                 caught, thrown, returned, built, calls, argRefs>>

\* step.execute raised.
StepRaise(i) ==
  /\ pc[i] = "stepRunning"
  /\ settled' = [settled EXCEPT ![i] = Append(@, Settled("execute", steps[idx[i]].id, FALSE))]
  /\ LET step == steps[idx[i]]
     IN /\ inflight' = [inflight EXCEPT ![i] = @ \ {<<"execute", step.id>>}]
        /\ stepError' = [stepError EXCEPT ![i] = StepError(step.id)]
        /\ pc' = [pc EXCEPT ![i] = "stepCatch"]
  /\ UNCHANGED <<jobVars, sharedState, argRefs, validations, stepsValidated, nextWorkflowId, observed, metricsLog,
                 workflowId, stepSnapshots, stepResults, idx, compQueue, caught,
                 thrown, returned, built, calls, sinkRaised, unsettled>>

\* The catch block of executeStep up to the call of executeCompensation, which
\* starts by selecting the steps to compensate.
StepCatch(i) ==
  /\ pc[i] = "stepCatch"
  /\ LET step == steps[idx[i]]
         snapshots == setSnapshot(stepSnapshots[i], "failed")
     IN \E metricRaise \in MetricOutcomes, raise \in EmitOutcomes :
        /\ stepSnapshots' = [stepSnapshots EXCEPT ![i] = snapshots]
        /\ metricsLog' = recordMetric(metricsLog, <<"recordStep", step.id, "failure">>)
        /\ IF metricRaise
           THEN /\ pc' = [pc EXCEPT ![i] = "catch"]
                /\ caught' = [caught EXCEPT ![i] = MetricsError]
                /\ sinkRaised' = [sinkRaised EXCEPT ![i] = @ \cup {"metrics"}]
                /\ UNCHANGED unsettled
                /\ UNCHANGED <<observed, compQueue>>
           ELSE /\ observed' = emitEvent(observed, Event("step:failed", workflowId[i], step.id, stepError[i], "none"))
                /\ sinkRaised' = [sinkRaised EXCEPT ![i] = @ \cup Raised(raise)]
                /\ \E late \in LateOutcomes(raise) : unsettled' = [unsettled EXCEPT ![i] = @ \/ late]
                /\ IF raise
                   THEN /\ pc' = [pc EXCEPT ![i] = "catch"]
                        /\ caught' = [caught EXCEPT ![i] = ObserverError]
                        /\ UNCHANGED compQueue
                   ELSE /\ pc' = [pc EXCEPT ![i] = "compLoop"]
                        /\ compQueue' = [compQueue EXCEPT ![i] = compensatableSteps(steps, snapshots)]
                        /\ UNCHANGED caught
  /\ UNCHANGED <<jobVars, sharedState, argRefs, validations, settled, stepsValidated, nextWorkflowId, workflowId, stepResults,
                 idx, stepError, thrown, returned, built, calls, inflight>>


\* executeCompensation's loop reaches a step: its compensate is called.
CompBegin(i) ==
  /\ pc[i] = "compLoop"
  /\ compQueue[i] # <<>>
  /\ LET step == Head(compQueue[i])
     IN /\ calls' = [calls EXCEPT ![i] = Append(@, <<"compensate", step.id>>)]
        /\ argRefs' = [argRefs EXCEPT ![i] = Append(@, stepArgs(i).sharedState)]
        /\ inflight' = [inflight EXCEPT ![i] = @ \cup {<<"compensate", step.id>>}]
        /\ pc' = [pc EXCEPT ![i] = "compRunning"]
  /\ UNCHANGED <<jobVars, validations, settled, stepsValidated, nextWorkflowId, observed, metricsLog,
                 workflowId, stepSnapshots, stepResults, idx, stepError, compQueue,
                 caught, thrown, returned, built, sinkRaised, unsettled, sharedState>>

\* step.compensate returned: the try block of the loop after the await.
CompReturn(i) ==
  /\ pc[i] = "compRunning"
  /\ settled' = [settled EXCEPT ![i] = Append(@, Settled("compensate", Head(compQueue[i]).id, TRUE))]
  /\ LET step == Head(compQueue[i])
     IN \E metricRaise \in MetricOutcomes, raise \in EmitOutcomes :
        /\ inflight' = [inflight EXCEPT ![i] = @ \ {<<"compensate", step.id>>}]
        /\ sharedState' = [sharedState EXCEPT ![i].fields = Append(@, <<"compensate", step.id>>)]
        /\ metricsLog' = recordMetric(metricsLog, <<"recordCompensation", step.id, "">>)
        /\ IF metricRaise
           THEN /\ pc' = [pc EXCEPT ![i] = "compCatch"]
                /\ caught' = [caught EXCEPT ![i] = MetricsError]
                /\ sinkRaised' = [sinkRaised EXCEPT ![i] = @ \cup {"metrics"}]
                /\ UNCHANGED unsettled
                /\ UNCHANGED <<observed, stepSnapshots, compQueue>>
           ELSE /\ stepSnapshots' = [stepSnapshots EXCEPT ![i] = updateSnapshotStatus(@, step.id, "compensated")]
                /\ observed' = emitEvent(observed, Event("step:compensated", workflowId[i], step.id, stepError[i], "none"))
                /\ sinkRaised' = [sinkRaised EXCEPT ![i] = @ \cup Raised(raise)]
                /\ \E late \in LateOutcomes(raise) : unsettled' = [unsettled EXCEPT ![i] = @ \/ late]
                /\ IF raise
                   THEN /\ pc' = [pc EXCEPT ![i] = "compCatch"]
                        /\ caught' = [caught EXCEPT ![i] = ObserverError]
                        /\ UNCHANGED compQueue
                   ELSE /\ pc' = [pc EXCEPT ![i] = "compLoop"]
                        /\ compQueue' = [compQueue EXCEPT ![i] = Tail(@)]
                        /\ UNCHANGED caught
  /\ UNCHANGED <<jobVars, validations, stepsValidated, nextWorkflowId, workflowId, stepResults,
                 idx, stepError, thrown, returned, built, calls, argRefs>>

\* step.compensate raised.
CompRaise(i) ==
  /\ pc[i] = "compRunning"
  /\ settled' = [settled EXCEPT ![i] = Append(@, Settled("compensate", Head(compQueue[i]).id, FALSE))]
  /\ LET step == Head(compQueue[i])
     IN /\ inflight' = [inflight EXCEPT ![i] = @ \ {<<"compensate", step.id>>}]
        /\ caught' = [caught EXCEPT ![i] = CompensationError(step.id)]
        /\ pc' = [pc EXCEPT ![i] = "compCatch"]
  /\ UNCHANGED <<jobVars, sharedState, argRefs, validations, stepsValidated, nextWorkflowId, observed, metricsLog,
                 workflowId, stepSnapshots, stepResults, idx, stepError, compQueue,
                 thrown, returned, built, calls, sinkRaised, unsettled>>

\* The catch block of the compensation loop marking the snapshot 'failed'.
CompCatchMarksFailed(i) ==
  /\ pc[i] = "compCatch"
  /\ LET step == Head(compQueue[i])
     IN \E raise \in EmitOutcomes :
        /\ stepSnapshots' = [stepSnapshots EXCEPT ![i] = updateSnapshotStatus(@, step.id, "failed")]
        /\ observed' = emitEvent(observed, Event("step:failed", workflowId[i], step.id, caught[i], "none"))
        /\ sinkRaised' = [sinkRaised EXCEPT ![i] = @ \cup Raised(raise)]
        /\ \E late \in LateOutcomes(raise) : unsettled' = [unsettled EXCEPT ![i] = @ \/ late]
        /\ caught' = [caught EXCEPT ![i] = IF raise THEN ObserverError ELSE @]
        /\ pc' = [pc EXCEPT ![i] = "catch"]
  /\ UNCHANGED <<jobVars, sharedState, argRefs, validations, settled, stepsValidated, nextWorkflowId, metricsLog, workflowId,
                 stepResults, idx, stepError, compQueue, thrown,
                 returned, built, calls, inflight>>

\* The catch block of the compensation loop swallowing the error: the loop
\* goes on to the next step.
CompCatchContinues(i) ==
  /\ pc[i] = "compCatch"
  /\ LET step == Head(compQueue[i])
     IN \E raise \in EmitOutcomes :
        /\ observed' = emitEvent(observed, Event("step:failed", workflowId[i], step.id, caught[i], "none"))
        /\ sinkRaised' = [sinkRaised EXCEPT ![i] = @ \cup Raised(raise)]
        /\ \E late \in LateOutcomes(raise) : unsettled' = [unsettled EXCEPT ![i] = @ \/ late]
        /\ caught' = [caught EXCEPT ![i] = IF raise THEN ObserverError ELSE @]
        /\ pc' = [pc EXCEPT ![i] = IF raise THEN "catch" ELSE "compLoop"]
        /\ compQueue' = [compQueue EXCEPT ![i] = IF raise THEN @ ELSE Tail(@)]
  /\ UNCHANGED <<jobVars, sharedState, argRefs, validations, settled, stepsValidated, nextWorkflowId, metricsLog, workflowId,
                 stepSnapshots, stepResults, idx, stepError, thrown,
                 returned, built, calls, inflight>>

\* The catch block of the compensation loop calling the step's compensate
\* again instead of throwing the compensation error on.
CompCatchRetries(i) ==
  /\ pc[i] = "compCatch"
  /\ LET step == Head(compQueue[i])
     IN \E raise \in EmitOutcomes :
        /\ observed' = emitEvent(observed, Event("step:failed", workflowId[i], step.id, caught[i], "none"))
        /\ sinkRaised' = [sinkRaised EXCEPT ![i] = @ \cup Raised(raise)]
        /\ \E late \in LateOutcomes(raise) : unsettled' = [unsettled EXCEPT ![i] = @ \/ late]
        /\ caught' = [caught EXCEPT ![i] = IF raise THEN ObserverError ELSE @]
        /\ pc' = [pc EXCEPT ![i] = IF raise THEN "catch" ELSE "compLoop"]
  /\ UNCHANGED <<jobVars, sharedState, argRefs, validations, settled, stepsValidated, nextWorkflowId, metricsLog, workflowId,
                 stepSnapshots, stepResults, idx, stepError, compQueue, thrown,
                 returned, built, calls, inflight>>

\* The catch block of the compensation loop: step:failed for the step whose
\* compensation attempt raised, then the compensation error is thrown on.
CompCatch(i) ==
  /\ pc[i] = "compCatch"
  /\ LET step == Head(compQueue[i])
     IN \E raise \in EmitOutcomes :
        /\ observed' = emitEvent(observed, Event("step:failed", workflowId[i], step.id, caught[i], "none"))
        /\ sinkRaised' = [sinkRaised EXCEPT ![i] = @ \cup Raised(raise)]
        /\ \E late \in LateOutcomes(raise) : unsettled' = [unsettled EXCEPT ![i] = @ \/ late]
        /\ caught' = [caught EXCEPT ![i] = IF raise THEN ObserverError ELSE @]
        /\ pc' = [pc EXCEPT ![i] = "catch"]
  /\ UNCHANGED <<jobVars, sharedState, argRefs, validations, settled, stepsValidated, nextWorkflowId, metricsLog, workflowId,
                 stepSnapshots, stepResults, idx, stepError, compQueue, thrown,
                 returned, built, calls, inflight>>

\* executeStep without its final throw: the for-loop goes on to the next step.
CompDoneContinues(i) ==
  /\ pc[i] = "compLoop"
  /\ compQueue[i] = <<>>
  /\ idx' = [idx EXCEPT ![i] = @ + 1]
  /\ pc' = [pc EXCEPT ![i] = "loop"]
  /\ UNCHANGED <<jobVars, sharedState, argRefs, validations, settled, stepsValidated, nextWorkflowId, observed, metricsLog,
                 workflowId, stepSnapshots, stepResults, stepError, compQueue,
                 caught, thrown, returned, built, calls, inflight, sinkRaised, unsettled>>

\* executeStep retrying the failed step instead of throwing.
CompDoneRetries(i) ==
  /\ pc[i] = "compLoop"
  /\ compQueue[i] = <<>>
  /\ pc' = [pc EXCEPT ![i] = "loop"]
  /\ UNCHANGED <<jobVars, sharedState, argRefs, validations, settled, stepsValidated, nextWorkflowId,
                 observed, metricsLog, workflowId, stepSnapshots, stepResults, idx, stepError,
                 compQueue, caught, thrown, returned, built, calls, inflight, sinkRaised, unsettled>>

\* executeCompensation returned: executeStep throws the error it caught.
CompDone(i) ==
  /\ pc[i] = "compLoop"
  /\ compQueue[i] = <<>>
  /\ caught' = [caught EXCEPT ![i] = stepError[i]]
  /\ pc' = [pc EXCEPT ![i] = "catch"]
  /\ UNCHANGED <<jobVars, sharedState, argRefs, validations, settled, stepsValidated, nextWorkflowId, observed, metricsLog,
                 workflowId, stepSnapshots, stepResults, idx, stepError, compQueue,
                 thrown, returned, built, calls, inflight, sinkRaised, unsettled>>

\* The for-loop of execute() is over: onWorkflowCompleted is called.
LoopDone(i) ==
  /\ pc[i] = "loop"
  /\ idx[i] > Len(steps)
  /\ pc' = [pc EXCEPT ![i] = "hookRunning"]
  /\ UNCHANGED <<jobVars, sharedState, argRefs, validations, settled, stepsValidated, nextWorkflowId, observed, metricsLog,
                 workflowId, stepSnapshots, stepResults, idx, stepError, compQueue,
                 caught, thrown, returned, built, calls, inflight, sinkRaised, unsettled>>

\* The default onWorkflowCompleted: the output stored for the last declared
\* step, with ?? turning a null or missing output into undefined.
onWorkflowCompleted(list, results) ==
  LET lastId == IF Len(list) = 0 THEN 0 ELSE list[Len(list)].id
      lastResult == IF lastId \in DOMAIN results THEN results[lastId] ELSE Undefined
  IN IF lastResult \in {Null, Undefined} THEN Undefined ELSE lastResult

\* onWorkflowCompleted returned: the success result, its metric, the emit of
\* workflow:completed, the return.
HookReturn(i) ==
  /\ pc[i] = "hookRunning"
  /\ settled' = [settled EXCEPT ![i] = Append(@, Settled("hook", 0, TRUE))]
  /\ LET success == [status |-> "success", workflowId |-> workflowId[i],
                     steps |-> stepSnapshots[i],
                     result |-> IF hookOverridden THEN OverrideResult
                                ELSE onWorkflowCompleted(steps, stepResults[i]),
                     error |-> NoError,
                     sharedState |-> sharedState[i].ref]
     IN \E metricRaise \in MetricOutcomes, raise \in EmitOutcomes :
        /\ built' = [built EXCEPT ![i] = Append(@, success)]
        /\ metricsLog' = recordMetric(metricsLog, <<"recordWorkflowCompletion", 0, "success">>)
        /\ IF metricRaise
           THEN /\ pc' = [pc EXCEPT ![i] = "catch"]
                /\ caught' = [caught EXCEPT ![i] = MetricsError]
                /\ sinkRaised' = [sinkRaised EXCEPT ![i] = @ \cup {"metrics"}]
                /\ UNCHANGED unsettled
                /\ UNCHANGED <<observed, returned>>
           ELSE /\ observed' = emitEvent(observed, Event("workflow:completed", workflowId[i], 0, NoError, "success"))
                /\ sinkRaised' = [sinkRaised EXCEPT ![i] = @ \cup Raised(raise)]
                /\ \E late \in LateOutcomes(raise) : unsettled' = [unsettled EXCEPT ![i] = @ \/ late]
                /\ IF raise
                   THEN /\ pc' = [pc EXCEPT ![i] = "catch"]
                        /\ caught' = [caught EXCEPT ![i] = ObserverError]
                        /\ UNCHANGED returned
                   ELSE /\ pc' = [pc EXCEPT ![i] = "returned"]
                        /\ returned' = [returned EXCEPT ![i] = success]
                        /\ UNCHANGED caught
  /\ UNCHANGED <<jobVars, sharedState, argRefs, validations, stepsValidated, nextWorkflowId, workflowId, stepSnapshots,
                 stepResults, idx, stepError, compQueue, thrown, calls, inflight>>

\* onWorkflowCompleted, which a subclass may override, raised.
HookRaise(i) ==
  /\ pc[i] = "hookRunning"
  /\ hookOverridden
  /\ settled' = [settled EXCEPT ![i] = Append(@, Settled("hook", 0, FALSE))]
  /\ caught' = [caught EXCEPT ![i] = HookError]
  /\ pc' = [pc EXCEPT ![i] = "catch"]
  /\ UNCHANGED <<jobVars, sharedState, argRefs, validations, stepsValidated, nextWorkflowId, observed, metricsLog,
                 workflowId, stepSnapshots, stepResults, idx, stepError, compQueue,
                 thrown, returned, built, calls, inflight, sinkRaised, unsettled>>

\* The catch block of execute(): the failure result, its metric, the emit of
\* workflow:failed, and the caught error thrown to the caller.
Catch(i) ==
  /\ pc[i] = "catch"
  /\ LET fail == [status |-> "failure", workflowId |-> workflowId[i],
                  steps |-> stepSnapshots[i], result |-> 0, error |-> caught[i],
                  sharedState |-> sharedState[i].ref]
     IN \E metricRaise \in MetricOutcomes, raise \in EmitOutcomes :
        /\ built' = [built EXCEPT ![i] = Append(@, fail)]
        /\ metricsLog' = recordMetric(metricsLog, <<"recordWorkflowCompletion", 0, "failure">>)
        /\ pc' = [pc EXCEPT ![i] = "raised"]
        /\ IF metricRaise
           THEN /\ thrown' = [thrown EXCEPT ![i] = MetricsError]
                /\ sinkRaised' = [sinkRaised EXCEPT ![i] = @ \cup {"metrics"}]
                /\ UNCHANGED unsettled
                /\ UNCHANGED observed
           ELSE /\ observed' = emitEvent(observed, Event("workflow:failed", workflowId[i], 0, caught[i], "failure"))
                /\ sinkRaised' = [sinkRaised EXCEPT ![i] = @ \cup Raised(raise)]
                /\ \E late \in LateOutcomes(raise) : unsettled' = [unsettled EXCEPT ![i] = @ \/ late]
                /\ thrown' = [thrown EXCEPT ![i] = IF raise THEN ObserverError ELSE caught[i]]
  /\ UNCHANGED <<jobVars, sharedState, argRefs, validations, settled, stepsValidated, nextWorkflowId, workflowId, stepSnapshots,
                 stepResults, idx, stepError, compQueue, caught, returned, calls,
                 inflight>>


Next ==
  \E i \in {1} :
    \/ Execute(i)
    \/ StepBegin(i)
    \/ StepReturn(i)
    \/ StepRaise(i)
    \/ StepCatch(i)
    \/ CompBegin(i)
    \/ CompReturn(i)
    \/ CompRaise(i)
    \/ CompCatch(i)
    \/ CompDone(i)
    \/ LoopDone(i)
    \/ HookReturn(i)
    \/ HookRaise(i)
    \/ Catch(i)

Spec == Init /\ [][Next]_vars

\* Two execute() calls on one job, interleaved at every await; the job has no
\* observer and no metrics sink, and one step fewer than MaxSteps at most.
InitConc ==
  /\ Init
  /\ Len(steps) < MaxSteps
  /\ numObservers = 0
  /\ ~hasMetrics

NextConc ==
  \E i \in Invocations :
    \/ Execute(i)
    \/ StepBegin(i)
    \/ StepReturn(i)
    \/ StepRaise(i)
    \/ StepCatch(i)
    \/ CompBegin(i)
    \/ CompReturn(i)
    \/ CompRaise(i)
    \/ CompCatch(i)
    \/ CompDone(i)
    \/ LoopDone(i)
    \/ HookReturn(i)
    \/ HookRaise(i)
    \/ Catch(i)

SpecConc == InitConc /\ [][NextConc]_vars

\* One execute() call on a job without observers and metrics sink, whose
\* step list is valid and whose step functions may return null or nothing.
InitHook ==
  /\ \E n \in 0..MaxSteps : \E ids \in IdLists(n), deps \in DepLists(n) :
       \E comp \in CompLists(ids, deps) : steps = StepList(ids, deps, comp)
  /\ validateSteps(steps) = NoError
  /\ numObservers = 0
  /\ hasMetrics = FALSE
  /\ hookOverridden \in BOOLEAN
  /\ stepOutput \in { f \in [1..Len(steps) -> UNION { Outputs(steps[k].id) : k \in 1..Len(steps) }] :
                        \A k \in 1..Len(steps) : f[k] \in Outputs(steps[k].id) }
  /\ Constructed

SpecHook == InitHook /\ [][Next]_vars

\* One execute() call on a job with at most one observer, in which every
\* call the engine awaits settles: a step that can be taken is taken.
InitLive ==
  /\ Init
  /\ numObservers <= 1

SpecLive == InitLive /\ [][Next]_vars /\ WF_vars(Next)

\* ------------------------------------------------------------------ observations
Done(i) == pc[i] \in {"returned", "raised"}

Range(s) == { s[k] : k \in 1..Len(s) }

\* The ids of the calls of one kind ("execute", "compensate"), in call order.
CallIds(i, kind) ==
  LET sel == SelectSeq(calls[i], LAMBDA c : c[1] = kind)
  IN [k \in 1..Len(sel) |-> sel[k][2]]

\* The ids of the settled calls of fn with outcome ok, in settling order.
SettledIds(i, fn, ok) ==
  LET sel == SelectSeq(settled[i], LAMBDA c : c.fn = fn /\ c.ok = ok)
  IN [k \in 1..Len(sel) |-> sel[k].id]

ExecuteRaised(i) == SettledIds(i, "execute", FALSE) # <<>>

CompensationRaised(i) == SettledIds(i, "compensate", FALSE) # <<>>

HasCompensate(id) == \E k \in 1..Len(steps) : steps[k].id = id /\ steps[k].compensate

\* The statuses of the snapshots with this id.
StatusOf(i, id) ==
  { stepSnapshots[i][k].status : k \in { j \in 1..Len(stepSnapshots[i]) : stepSnapshots[i][j].id = id } }

IsPrefix(s, t) == Len(s) <= Len(t) /\ s = SubSeq(t, 1, Len(s))

\* The compensable steps whose execute returned, most recently completed first.
UnwindOrder(i) == Reverse(SelectSeq(SettledIds(i, "execute", TRUE), HasCompensate))

\* ------------------------------------------------------------------ claims
\* C1 (as stated): when a step's execute raised and no observer or metrics call
\* raised, the compensate calls made by the end of the execution are exactly
\* the completed steps that declare compensate, each once, most recently
\* completed first, and completed steps without compensate stay 'completed'.
C1_AllSelectedCompensated ==
  \A i \in Invocations :
    (pc[i] = "raised" /\ ExecuteRaised(i) /\ sinkRaised[i] = {}) =>
      /\ CallIds(i, "compensate") = UnwindOrder(i)
      /\ \A id \in Range(SettledIds(i, "execute", TRUE)) :
           ~HasCompensate(id) => StatusOf(i, id) = {"completed"}

\* C1 (amended): the compensate calls are, at every moment, a prefix of the
\* completed compensable steps in reverse completion order; at the end they
\* are all of them unless a compensate raised, and then the raising call is
\* the last one made; completed steps without compensate stay 'completed'.
C1_ReverseUnwindUntilRaise ==
  \A i \in Invocations :
    (ExecuteRaised(i) /\ sinkRaised[i] = {}) =>
      /\ IsPrefix(CallIds(i, "compensate"), UnwindOrder(i))
      /\ (pc[i] = "raised" /\ ~CompensationRaised(i)) =>
           CallIds(i, "compensate") = UnwindOrder(i)
      /\ CompensationRaised(i) =>
           /\ Len(SettledIds(i, "compensate", FALSE)) = 1
           /\ SettledIds(i, "compensate", FALSE)[1] =
                CallIds(i, "compensate")[Len(CallIds(i, "compensate"))]
      /\ \A id \in Range(SettledIds(i, "execute", TRUE)) :
           ~HasCompensate(id) => StatusOf(i, id) = {"completed"}

\* C1 witness: a finished unwind that called two compensate functions.
C1_Witness ==
  \E i \in Invocations :
    /\ pc[i] = "raised" /\ ExecuteRaised(i) /\ sinkRaised[i] = {}
    /\ Len(CallIds(i, "compensate")) = 2
    /\ ~CompensationRaised(i)

\* C2: step k's execute raised E, every compensation succeeded and no sink
\* raised: k was never compensated, every completed compensable step is
\* 'compensated', k's snapshot is 'failed', and execute raised E.
C2_FailedStepNotCompensated ==
  \A i \in Invocations :
    (pc[i] = "raised" /\ ExecuteRaised(i) /\ sinkRaised[i] = {} /\ ~CompensationRaised(i)) =>
      LET k == SettledIds(i, "execute", FALSE)[1]
      IN /\ k \notin Range(CallIds(i, "compensate"))
         /\ \A id \in Range(SettledIds(i, "execute", TRUE)) :
              HasCompensate(id) => StatusOf(i, id) = {"compensated"}
         /\ StatusOf(i, k) = {"failed"}
         /\ thrown[i] = StepError(k)

\* C2 witness: the failed step declares compensate itself and an earlier step
\* was compensated.
C2_Witness ==
  \E i \in Invocations :
    /\ pc[i] = "raised" /\ ExecuteRaised(i) /\ sinkRaised[i] = {} /\ ~CompensationRaised(i)
    /\ HasCompensate(SettledIds(i, "execute", FALSE)[1])
    /\ \E k \in 1..Len(stepSnapshots[i]) : stepSnapshots[i][k].status = "compensated"

\* C3 (as stated, for executions in which no observer raises): a compensate
\* that raised C is the last compensate invoked, every observer was sent a
\* step:failed event for that step carrying C, and execute raised C.
C3_CompensationErrorRaised ==
  \A i \in Invocations :
    (pc[i] = "raised" /\ CompensationRaised(i) /\ "observer" \notin sinkRaised[i]) =>
      LET a == SettledIds(i, "compensate", FALSE)[1]
      IN /\ CallIds(i, "compensate")[Len(CallIds(i, "compensate"))] = a
         /\ \A o \in DOMAIN observed : \E k \in 1..Len(observed[o]) :
              /\ observed[o][k].type = "step:failed"
              /\ observed[o][k].stepId = a
              /\ observed[o][k].error = CompensationError(a)
         /\ thrown[i] = CompensationError(a)

\* C4 (as stated): A's compensate raised after B's compensate succeeded: B's
\* snapshot is 'compensated' and A's snapshot is 'failed'.
C4_FailedDuringCompensation ==
  \A i \in Invocations :
    (pc[i] = "raised" /\ CompensationRaised(i) /\ SettledIds(i, "compensate", TRUE) # <<>>) =>
      /\ \A b \in Range(SettledIds(i, "compensate", TRUE)) : StatusOf(i, b) = {"compensated"}
      /\ \A a \in Range(SettledIds(i, "compensate", FALSE)) : StatusOf(i, a) = {"failed"}

\* C4 (amended): from the moment A's compensate raised after B's compensate
\* succeeded, B's snapshot is 'compensated' and A's snapshot is still
\* 'completed'.
C4_CompletedAfterFailedCompensation ==
  \A i \in Invocations :
    (CompensationRaised(i) /\ SettledIds(i, "compensate", TRUE) # <<>>) =>
      /\ \A b \in Range(SettledIds(i, "compensate", TRUE)) : StatusOf(i, b) = {"compensated"}
      /\ \A a \in Range(SettledIds(i, "compensate", FALSE)) : StatusOf(i, a) = {"completed"}

\* C4 witness: the execution ended after a compensate raised that followed a
\* successful one.
C4_Witness ==
  \E i \in Invocations :
    /\ pc[i] = "raised"
    /\ CompensationRaised(i)
    /\ SettledIds(i, "compensate", TRUE) # <<>>

\* The ids of the steps that completed up to and including id, in order.
CompletedUpTo(i, id) ==
  LET done == SettledIds(i, "execute", TRUE)
  IN { done[k] : k \in { j \in 1..Len(done) : \E m \in j..Len(done) : done[m] = id } }

\* C5: the unwind was halted by a compensate that raised: the step whose
\* compensate raised and every step completed before it are 'completed' in the
\* final snapshot list.
C5_UncompensatedStayCompleted ==
  \A i \in Invocations :
    (pc[i] = "raised" /\ CompensationRaised(i)) =>
      \A a \in Range(SettledIds(i, "compensate", FALSE)) :
        \A id \in CompletedUpTo(i, a) : StatusOf(i, id) = {"completed"}

\* C5 witness: the compensate that raised belongs to a step that has a
\* compensable step completed before it.
C5_Witness ==
  \E i \in Invocations :
    /\ pc[i] = "raised"
    /\ CompensationRaised(i)
    /\ \E id \in CompletedUpTo(i, SettledIds(i, "compensate", FALSE)[1]) :
         id # SettledIds(i, "compensate", FALSE)[1] /\ HasCompensate(id)

\* C6 (as stated): execute raised after validation passed: every compensable
\* step whose execute returned had its compensate invoked, unless a compensate
\* raised.
C6_CompletedStepsUnwound ==
  \A i \in Invocations :
    (pc[i] = "raised" /\ workflowId[i] # 0) =>
      \A id \in Range(SettledIds(i, "execute", TRUE)) :
        HasCompensate(id) =>
          (id \in Range(CallIds(i, "compensate")) \/ CompensationRaised(i))

DeclaredIds == [k \in 1..Len(steps) |-> steps[k].id]

\* What C7 says of a returned result and of the execution that returned it.
SuccessOutcome(i) ==
  /\ pc[i] = "returned"
  /\ returned[i].status = "success"
  /\ returned[i].steps = [k \in 1..Len(steps) |-> createSnapshot(steps[k].id, "completed")]
  /\ stepSnapshots[i] = returned[i].steps
  /\ DOMAIN stepResults[i] = Range(DeclaredIds)
  /\ \A id \in Range(DeclaredIds) : stepResults[i][id] = Output(id)
  /\ CallIds(i, "compensate") = <<>>
  /\ \A o \in DOMAIN observed : \A k \in 1..Len(observed[o]) :
       observed[o][k].type # "step:compensated"
  /\ \A k \in 1..Len(metricsLog) : metricsLog[k][1] # "recordCompensation"

\* A valid step list: ids are unique and every dependsOn entry is the id of a
\* step declared strictly earlier.
ValidList(list) ==
  /\ \A j, k \in 1..Len(list) : list[j].id = list[k].id => j = k
  /\ \A k \in 1..Len(list) : \A d \in 1..Len(list[k].dependsOn) :
       \E j \in 1..(k - 1) : list[j].id = list[k].dependsOn[d]

C8_OneStepAtATime ==
  \A i \in Invocations :
    /\ Cardinality(inflight[i]) <= 1
    /\ inflight[i] # {} => inflight[i] = {calls[i][Len(calls[i])]}
    /\ Len(SelectSeq(settled[i], LAMBDA c : c.fn # "hook")) =
         Len(calls[i]) - Cardinality(inflight[i])
    /\ IsPrefix(CallIds(i, "execute"), DeclaredIds)
    /\ \A j, k \in 1..Len(calls[i]) :
         (calls[i][j][1] = "compensate" /\ calls[i][k][1] = "execute") => k < j

\* C8 witness: a compensate is in flight after two executes have settled.
C8_Witness ==
  \E i \in Invocations :
    /\ \E c \in inflight[i] : c[1] = "compensate"
    /\ Len(CallIds(i, "execute")) >= 2

\* C9: once a step's execute raised, that step is the last one started (last
\* execute call, last snapshot, last step:start) and execute never returns;
\* what execute returns is a success result, and it returns nothing when it
\* raises.
C9_FailureIsFinal ==
  \A i \in Invocations :
    /\ ExecuteRaised(i) =>
         LET k == SettledIds(i, "execute", FALSE)[1]
         IN /\ CallIds(i, "execute")[Len(CallIds(i, "execute"))] = k
            /\ stepSnapshots[i][Len(stepSnapshots[i])].id = k
            /\ Len(stepSnapshots[i]) = Len(CallIds(i, "execute"))
            /\ \A o \in DOMAIN observed :
                 Len(SelectSeq(observed[o], LAMBDA e : e.type = "step:start")) =
                   Len(stepSnapshots[i])
            /\ pc[i] # "returned"
            /\ returned[i] = NoResult
    /\ pc[i] = "returned" => returned[i].status = "success" /\ thrown[i] = NoError
    /\ pc[i] = "raised" => returned[i] = NoResult /\ thrown[i] # NoError

\* C9 witness: a step that is not the last declared one raised, its unwind
\* compensated a step, and the execution ended.
C9_Witness ==
  \E i \in Invocations :
    /\ pc[i] = "raised"
    /\ ExecuteRaised(i)
    /\ Len(stepSnapshots[i]) < Len(steps)
    /\ SettledIds(i, "compensate", TRUE) # <<>>

\* The event sequence of a fully successful execution, as <<type, stepId>>.
SuccessEvents ==
  <<  <<"workflow:start", 0>>  >>
  \o [k \in 1..(2 * Len(steps)) |->
        IF k % 2 = 1 THEN <<"step:start", steps[(k + 1) \div 2].id>>
        ELSE <<"step:completed", steps[k \div 2].id>>]
  \o <<  <<"workflow:completed", 0>>  >>

\* The events of invocation i that observer o was sent, as <<type, stepId>>.
EventsOf(i, o) ==
  LET sel == SelectSeq(observed[o], LAMBDA e : e.workflowId = workflowId[i])
  IN [k \in 1..Len(sel) |-> <<sel[k].type, sel[k].stepId>>]

\* C10: when execute returned, every registered observer was sent exactly
\* workflow:start, then step:start and step:completed of each step in
\* declaration order, then workflow:completed.
C10_SuccessEventOrder ==
  \A i \in Invocations :
    pc[i] = "returned" =>
      \A o \in 1..numObservers : o \in DOMAIN observed /\ EventsOf(i, o) = SuccessEvents

\* C10 witness: a returned execution of at least two steps with two observers.
C10_Witness ==
  \E i \in Invocations :
    /\ pc[i] = "returned"
    /\ Len(steps) >= 2
    /\ numObservers >= 2

\* ------------------------------------------------------------ validation
HasDuplicate(list) ==
  \E j, k \in 1..Len(list) : j < k /\ list[j].id = list[k].id

\* The first position whose id was declared before it.
FirstRepeat(list) ==
  CHOOSE p \in 1..Len(list) :
    /\ \E j \in 1..(p - 1) : list[j].id = list[p].id
    /\ \A q \in 1..(p - 1) : \A j \in 1..(q - 1) : list[j].id # list[q].id

\* Every dependsOn entry of the steps before position p names a step declared
\* strictly earlier.
DependenciesEarlier(list, p) ==
  \A k \in 1..(p - 1) : \A d \in 1..Len(list[k].dependsOn) :
    \E j \in 1..(k - 1) : list[j].id = list[k].dependsOn[d]

ConfigurationError(e) == e.kind \in {"config:duplicate", "config:dependency"}

\* C11 (as stated): an execute call on a step list with a repeated id raises
\* a configuration error naming an id that occurs more than once, and no
\* step function is called.
C11_DuplicateIdNamed ==
  \A i \in Invocations :
    (HasDuplicate(steps) /\ pc[i] # "idle") =>
      /\ pc[i] = "raised"
      /\ thrown[i].kind = "config:duplicate"
      /\ \E j, k \in 1..Len(steps) :
           j < k /\ steps[j].id = thrown[i].id /\ steps[k].id = thrown[i].id
      /\ calls[i] = <<>>

\* C11 (amended): an execute call on a step list with a repeated id raises a
\* configuration error and calls no step function; the error names the first
\* repeated id when every dependsOn entry of the steps declared before the
\* repeat names a strictly earlier step.
C11_DuplicateIdRejected ==
  \A i \in Invocations :
    (HasDuplicate(steps) /\ pc[i] # "idle") =>
      /\ pc[i] = "raised"
      /\ ConfigurationError(thrown[i])
      /\ calls[i] = <<>>
      /\ workflowId[i] = 0
      /\ DependenciesEarlier(steps, FirstRepeat(steps)) =>
           thrown[i] = Err("config:duplicate", steps[FirstRepeat(steps)].id, 0)

\* C11 witness: the last of at least three steps repeats an id, an earlier
\* step has a dependency, and execute raised the duplicate-id error.
C11_Witness ==
  \E i \in Invocations :
    /\ pc[i] = "raised"
    /\ Len(steps) >= 3
    /\ HasDuplicate(steps)
    /\ FirstRepeat(steps) = Len(steps)
    /\ \E k \in 1..Len(steps) : steps[k].dependsOn # <<>>
    /\ thrown[i].kind = "config:duplicate"

\* The dependsOn entries of step k that are not ids of strictly earlier steps.
MissingDependencies(list, k) ==
  { list[k].dependsOn[d] : d \in { c \in 1..Len(list[k].dependsOn) :
      \A j \in 1..(k - 1) : list[j].id # list[k].dependsOn[c] } }

\* C12: an execute call on a step list of unique ids in which some dependsOn
\* entry is not the id of a strictly earlier step (a later step, an undeclared
\* id or the step's own id) raises a configuration error naming a step and an
\* entry of it that is missing among the earlier ids.
C12_MissingDependencyNamed ==
  \A i \in Invocations :
    (~HasDuplicate(steps) /\ ~DependenciesEarlier(steps, Len(steps) + 1) /\ pc[i] # "idle") =>
      /\ pc[i] = "raised"
      /\ thrown[i].kind = "config:dependency"
      /\ \E k \in 1..Len(steps) :
           steps[k].id = thrown[i].id /\ thrown[i].dep \in MissingDependencies(steps, k)

Started(i) == pc[i] # "idle"

C14_DependencyCheckNeverRaises ==
  \A i \in Invocations :
    validateSteps(steps) = NoError =>
      /\ caught[i].kind # "dependency-violation"
      /\ thrown[i].kind # "dependency-violation"
      /\ (pc[i] = "loop" /\ idx[i] <= Len(steps)) =>
           \A d \in 1..Len(steps[idx[i]].dependsOn) :
             "completed" \in StatusOf(i, steps[idx[i]].dependsOn[d])

\* C15: an execute call on an invalid step list raises a configuration error
\* before a runtime state is created: no workflowId is drawn, no step
\* function is called, no event is sent to an observer and no metric recorded.
C15_InvalidListRejected ==
  \A i \in Invocations :
    (~ValidList(steps) /\ Started(i)) =>
      /\ pc[i] = "raised"
      /\ ConfigurationError(thrown[i])
      /\ workflowId[i] = 0
      /\ calls[i] = <<>>
      /\ \A o \in DOMAIN observed : observed[o] = <<>>
      /\ metricsLog = <<>>

\* C16: an execution that passed validation and in which no observer raised
\* has built exactly one workflow result when it ends, the success variant if
\* it returned and the failure variant if it raised, whose steps field is the
\* final snapshot list.
C16_ExactlyOneResult ==
  \A i \in Invocations :
    (Done(i) /\ workflowId[i] # 0 /\ "observer" \notin sinkRaised[i]) =>
      /\ Len(built[i]) = 1
      /\ built[i][1].status = (IF pc[i] = "returned" THEN "success" ELSE "failure")
      /\ built[i][1].steps = stepSnapshots[i]

\* C17: when execute raises after validation passed, in an execution in which
\* no observer and no completion hook raised, the error raised is the error of
\* the compensate that raised if one did, else the error of the step execute
\* that raised.
C17_LatestStepOrCompensationError ==
  \A i \in Invocations :
    (pc[i] = "raised" /\ workflowId[i] # 0 /\ "observer" \notin sinkRaised[i]
       /\ SettledIds(i, "hook", FALSE) = <<>>) =>
      IF CompensationRaised(i)
      THEN thrown[i] = CompensationError(SettledIds(i, "compensate", FALSE)[1])
      ELSE /\ ExecuteRaised(i)
           /\ thrown[i] = StepError(SettledIds(i, "execute", FALSE)[1])

\* C18: a raising metrics call does not change the outcome: execute never
\* raises the sink's error, and an execution of a valid step list in which no
\* step execute, completion hook or observer raised ends as it does with a
\* sink that never raises, returning the success result with every step
\* 'completed' and nothing compensated.
C18_SinkFailureHarmless ==
  \A i \in Invocations :
    /\ thrown[i] # MetricsError
    /\ (Done(i) /\ ValidList(steps) /\ ~ExecuteRaised(i)
          /\ SettledIds(i, "hook", FALSE) = <<>> /\ "observer" \notin sinkRaised[i]) =>
         SuccessOutcome(i)

\* C19: every event is sent to every registered observer exactly once (all
\* observers hold the same event log), and execute never went on past an emit
\* while the notification of an observer was still pending, also when another
\* observer raised.
C19_EmitJoinsAllObservers ==
  /\ \A o, q \in DOMAIN observed : observed[o] = observed[q]
  /\ \A i \in Invocations : ~unsettled[i]

\* C20: an invocation that passed validation holds a workflowId no other
\* invocation holds, calls the first declared step first, and however the
\* invocations interleave its snapshot list holds one snapshot per step it
\* began, in declaration order, and its stepResults the outputs of the step
\* executes that returned to it, and nothing else.
C20_PrivateRuntimeState ==
  \A i \in Invocations :
    /\ \A j \in Invocations :
         (i # j /\ workflowId[i] # 0) => workflowId[i] # workflowId[j]
    /\ calls[i] # <<>> => calls[i][1] = <<"execute", steps[1].id>>
    /\ [k \in 1..Len(stepSnapshots[i]) |-> stepSnapshots[i][k].id] = CallIds(i, "execute")
    /\ DOMAIN stepResults[i] = Range(SettledIds(i, "execute", TRUE))
    /\ \A id \in DOMAIN stepResults[i] : stepResults[i][id] = Output(id)

\* C20 witness: one invocation raised after a step failed and its other step
\* was compensated, the other one returned, both with two snapshots.
C20_Witness ==
  \E i, j \in Invocations :
    /\ pc[i] = "raised" /\ pc[j] = "returned"
    /\ Len(stepSnapshots[i]) = 2 /\ Len(stepSnapshots[j]) = 2
    /\ StatusOf(i, steps[1].id) = {"compensated"}
    /\ workflowId[i] < workflowId[j]

\* ------------------------------------------------------------ metrics
\* The calls of one method made on the metrics sink, in order.
MetricCalls(method) == SelectSeq(metricsLog, LAMBDA c : c[1] = method)

\* C21: an execution that passed validation on a job with a metrics sink, in
\* which no observer raised, has made exactly one recordWorkflowCompletion
\* call when it ends: 'success' if execute returned, 'failure' if it raised.
C21_OneCompletionMetric ==
  \A i \in {1} :
    (Done(i) /\ workflowId[i] # 0 /\ hasMetrics /\ "observer" \notin sinkRaised[i]) =>
      MetricCalls("recordWorkflowCompletion") =
        << <<"recordWorkflowCompletion", 0, IF pc[i] = "returned" THEN "success" ELSE "failure">> >>

\* The calls of one method made on the metrics sink for one step id.
MetricCallsOf(method, id) ==
  SelectSeq(metricsLog, LAMBDA c : c[1] = method /\ c[2] = id)

\* C22: when an execution in which no observer raised ends on a job with a
\* metrics sink, recordStep was called exactly once for each step that has a
\* snapshot, with 'success' if the snapshot is 'completed' or 'compensated'
\* and 'failure' if it is 'failed', and for no other step; recordCompensation
\* was called exactly once for each step whose snapshot is 'compensated' and
\* for no other step.
C22_StepMetricsMatchSnapshots ==
  \A i \in {1} :
    (Done(i) /\ workflowId[i] # 0 /\ hasMetrics /\ "observer" \notin sinkRaised[i]) =>
      /\ Len(MetricCalls("recordStep")) = Len(stepSnapshots[i])
      /\ \A k \in 1..Len(stepSnapshots[i]) :
           LET snapshot == stepSnapshots[i][k]
           IN /\ MetricCallsOf("recordStep", snapshot.id) =
                   << <<"recordStep", snapshot.id,
                        IF snapshot.status \in {"completed", "compensated"}
                        THEN "success" ELSE "failure">> >>
              /\ Len(MetricCallsOf("recordCompensation", snapshot.id)) =
                   (IF snapshot.status = "compensated" THEN 1 ELSE 0)
      /\ Len(MetricCalls("recordCompensation")) =
           Cardinality({ k \in 1..Len(stepSnapshots[i]) : stepSnapshots[i][k].status = "compensated" })

\* ------------------------------------------------------------ result
\* C23: the result field of a returned workflow result is the value returned
\* by onWorkflowCompleted: the value of the override when the class has one,
\* and with the default hook the output stored in stepResults for the last
\* declared step.
C23_ResultIsHookValue ==
  \A i \in Invocations :
    (pc[i] = "returned" /\ Len(steps) > 0) =>
      /\ returned[i].status = "success"
      /\ returned[i].result =
           (IF hookOverridden THEN OverrideResult
            ELSE stepResults[i][steps[Len(steps)].id])

\* ------------------------------------------------------------ shared state
\* What the step functions that returned wrote to the shared state, in order.
StepWrites(i) ==
  LET sel == SelectSeq(settled[i], LAMBDA c : c.fn # "hook" /\ c.ok)
  IN [k \in 1..Len(sel) |-> <<sel[k].fn, sel[k].id>>]

\* C24: the shared state of an execution is the record its factory call
\* produced; its content is what the step execute and compensate functions
\* that returned wrote to it and nothing else; every execute and compensate
\* call of the execution was passed that reference, and it is the sharedState
\* of every workflow result the execution built or returned.
C24_SharedStatePassedThrough ==
  \A i \in Invocations :
    /\ sharedState[i].ref = workflowId[i]
    /\ sharedState[i].fields = StepWrites(i)
    /\ Len(argRefs[i]) = Len(calls[i])
    /\ \A k \in 1..Len(argRefs[i]) : argRefs[i][k] = sharedState[i].ref
    /\ \A k \in 1..Len(built[i]) : built[i][k].sharedState = sharedState[i].ref
    /\ pc[i] = "returned" => returned[i].sharedState = sharedState[i].ref

\* C24 witness: execute raised after two step functions and a compensate
\* were called, two of which returned, and built its failure result.
C24_Witness ==
  \E i \in Invocations :
    /\ pc[i] = "raised"
    /\ Len(argRefs[i]) >= 3
    /\ Len(sharedState[i].fields) >= 2
    /\ CallIds(i, "compensate") # <<>>
    /\ built[i] # <<>>

\* ------------------------------------------------------------ snapshots
SnapshotIds(i) == [k \in 1..Len(stepSnapshots[i]) |-> stepSnapshots[i][k].id]

\* C25: in every state the ids of the snapshot list are the ids of the first
\* declared steps in declaration order, no two snapshots have the same id,
\* and the k-th execute call is the only one made for the k-th declared step.
C25_SnapshotsPrefixOfSteps ==
  \A i \in Invocations :
    /\ IsPrefix(SnapshotIds(i), DeclaredIds)
    /\ \A j, k \in 1..Len(stepSnapshots[i]) :
         stepSnapshots[i][j].id = stepSnapshots[i][k].id => j = k
    /\ IsPrefix(CallIds(i, "execute"), SnapshotIds(i))
    /\ Len(SnapshotIds(i)) <= Len(CallIds(i, "execute")) + 1

\* C25 witness: the last of three steps failed after the first two completed.
C25_Witness ==
  \E i \in Invocations :
    /\ pc[i] = "raised"
    /\ Len(stepSnapshots[i]) = 3
    /\ Len(CallIds(i, "execute")) = 3
    /\ stepSnapshots[i][3].status = "failed"

\* The status changes C26 allows.
AllowedStatusChanges ==
  { <<"in_progress", "completed">>, <<"completed", "compensated">>, <<"in_progress", "failed">> }

\* C26: in an execution in which no observer raised, every step of execute()
\* leaves the status of a snapshot as it is or moves it along in_progress ->
\* completed -> compensated or in_progress -> failed; a new snapshot is
\* 'in_progress', and none is ever 'pending'.
C26_StatusMovesForward ==
  [][\A i \in Invocations :
       "observer" \notin sinkRaised'[i] =>
         /\ \A k \in 1..Len(stepSnapshots[i]) :
              \/ stepSnapshots'[i][k].status = stepSnapshots[i][k].status
              \/ <<stepSnapshots[i][k].status, stepSnapshots'[i][k].status>> \in AllowedStatusChanges
         /\ \A k \in (Len(stepSnapshots[i]) + 1)..Len(stepSnapshots'[i]) :
              stepSnapshots'[i][k].status = "in_progress"]_vars

\* C27: in every state of an execution in which no observer raised,
\* stepResults has an entry for exactly the step ids whose snapshot is
\* 'completed' or 'compensated'.
C27_ResultsMatchSnapshots ==
  \A i \in Invocations :
    "observer" \notin sinkRaised[i] =>
      DOMAIN stepResults[i] =
        { stepSnapshots[i][k].id : k \in { j \in 1..Len(stepSnapshots[i]) :
            stepSnapshots[i][j].status \in {"completed", "compensated"} } }

\* The positions of the snapshots of an invocation that have this status.
WithStatus(i, status) ==
  { k \in 1..Len(stepSnapshots[i]) : stepSnapshots[i][k].status = status }

\* C28: in every state at most one snapshot is 'in_progress' and at most one
\* is 'failed', and once execute has returned or raised none is 'in_progress'.
C28_NoSnapshotLeftInProgress ==
  \A i \in Invocations :
    /\ Cardinality(WithStatus(i, "in_progress")) <= 1
    /\ Cardinality(WithStatus(i, "failed")) <= 1
    /\ Done(i) => WithStatus(i, "in_progress") = {}

\* The events an observer is sent after 'step:start' of the step whose execute
\* raised: that step's 'step:failed', one 'step:compensated' per compensate
\* call that returned, in call order, the 'step:failed' of a compensate call
\* that raised, and 'workflow:failed'.
FailureEvents(i) ==
  LET k == SettledIds(i, "execute", FALSE)[1]
      compensated == SettledIds(i, "compensate", TRUE)
      raisedIn == SettledIds(i, "compensate", FALSE)
  IN <<  <<"step:failed", k>>  >>
     \o [n \in 1..Len(compensated) |-> <<"step:compensated", compensated[n]>>]
     \o [n \in 1..Len(raisedIn) |-> <<"step:failed", raisedIn[n]>>]
     \o <<  <<"workflow:failed", 0>>  >>

\* The events of a sequence after the first occurrence of event e.
RECURSIVE After(_, _)
After(events, e) ==
  IF events = <<>> THEN <<>>
  ELSE IF Head(events) = e THEN Tail(events)
  ELSE After(Tail(events), e)

\* C29: in an execution in which no observer raised, once execute has raised
\* after a step's execute raised, every observer was sent, after that step's
\* 'step:start', its 'step:failed', then 'step:compensated' of the compensated
\* steps most recently completed first, then 'workflow:failed' as the last
\* event; and no observer is sent both 'workflow:completed' and
\* 'workflow:failed' of one execution.
C29_FailureEventOrder ==
  \A i \in {1} :
    "observer" \notin sinkRaised[i] =>
      \A o \in 1..numObservers :
        /\ (Done(i) /\ ExecuteRaised(i)) =>
             /\ o \in DOMAIN observed
             /\ After(EventsOf(i, o), <<"step:start", SettledIds(i, "execute", FALSE)[1]>>)
                  = FailureEvents(i)
             /\ IsPrefix(SettledIds(i, "compensate", TRUE), UnwindOrder(i))
        /\ o \in DOMAIN observed =>
             ~ ({<<"workflow:completed", 0>>, <<"workflow:failed", 0>>} \subseteq Range(EventsOf(i, o)))

\* C30: an execute invocation that was started eventually returns or raises,
\* and at every moment the compensate calls it has made are calls of declared
\* steps, no step more than once.
C30_TerminatesCompensatingOnce ==
  /\ \A i \in {1} : Started(i) ~> Done(i)
  /\ [](\A i \in {1} :
          /\ Range(CallIds(i, "compensate")) \subseteq Range(DeclaredIds)
          /\ Cardinality(Range(CallIds(i, "compensate"))) = Len(CallIds(i, "compensate")))

\* C30 witness: an execution that has raised after two compensate calls, the
\* second of which raised.
C30_Witness ==
  /\ pc[1] = "raised"
  /\ Len(CallIds(1, "compensate")) = 2
  /\ CompensationRaised(1)

====
